---- MODULE Spec2Model ----
(***************************************************************************)
(* Order lifecycle with inventory reservation of the e-commerce API.       *)
(*                                                                         *)
(* The database holds three collections: products, carts (one per user)    *)
(* and orders.  createOrder, cancelMyOrder and updateOrderStatus run in a   *)
(* mongoose session transaction (session.startTransaction ... commit /     *)
(* abortTransaction).  The store's transactions are modelled as MongoDB    *)
(* provides them: the reads of a transaction come from the snapshot taken   *)
(* at its first operation, overlaid with its own writes; a write to a       *)
(* document that another open transaction has written, or that was         *)
(* committed after the snapshot, throws a WriteConflict; the writes become  *)
(* visible together at commit.  A write made outside a transaction waits    *)
(* for an open transaction holding the document.                           *)
(*                                                                         *)
(* Every request in flight occupies a slot of Reqs.  A handler is a chain   *)
(* of steps: its reads up to the first write (one snapshot), then one step  *)
(* per database write, the commit, and the response.  txn[r] holds the      *)
(* handler's locals and its session until the response has left.           *)
(***************************************************************************)
EXTENDS Integers, Sequences, FiniteSets, TLC

\* ------------------------------------------------------------------ bounds
MaxQty == 2
MaxOrders == 2
MaxRequests == 4

Users == {"u1", "u2"}
Products == {"p1", "p2"}
Reqs == {"r1", "r2"}

\* ------------------------------------------------------------ OrderStatus
PENDING == "pending"
CONFIRMED == "confirmed"
SHIPPED == "shipped"
DELIVERED == "delivered"
CANCELLED == "cancelled"
OrderStatus == {PENDING, CONFIRMED, SHIPPED, DELIVERED, CANCELLED}

VARIABLES
    products,   \* Product collection: productId -> document
    carts,      \* Cart collection: userId -> the document Cart.findOne({ userId }) finds
    orders,     \* Order collection: sequence of order documents, _id = index
    pc,         \* per request slot: the step the handler is at
    txn,        \* per request slot: the handler's locals and its session
    resp,       \* per request slot: the response just sent (NoResp: none)
    started,    \* number of requests received so far
    extraCarts  \* Cart collection: per userId, its documents beyond carts[u]

vars == <<products, carts, orders, pc, txn, resp, started, extraCarts>>

\* ------------------------------------------------------------- documents
NoProduct == [exists |-> FALSE, name |-> "", price |-> 0, quantity |-> 0, inStock |-> FALSE]
NoCart == [exists |-> FALSE, items |-> <<>>, total |-> 0]
NoOrder == [userId |-> "", items |-> <<>>, total |-> 0, status |-> ""]
NoResp == [code |-> 0, error |-> "", logged |-> ""]

ProductName(p) == p
ProductPrice(p) == IF p = "p1" THEN 1 ELSE 2

RECURSIVE SumSubtotals(_)
SumSubtotals(items) ==
    IF items = <<>> THEN 0
    ELSE Head(items).subtotal + SumSubtotals(Tail(items))

calculateCartTotal(cart) == SumSubtotals(cart.items)

\* cart.items.findIndex(item => item.productId === productId); 0 when absent
RECURSIVE FindIndexFrom(_, _, _)
FindIndexFrom(items, p, i) ==
    IF i > Len(items) THEN 0
    ELSE IF items[i].productId = p THEN i
    ELSE FindIndexFrom(items, p, i + 1)

findIndex(items, p) == FindIndexFrom(items, p, 1)

\* $pull: { items: { productId: id } }
PullItems(items, p) == SelectSeq(items, LAMBDA it : it.productId # p)

\* the filter { 'items.productId': id }
HasItem(cart, p) == cart.exists /\ findIndex(cart.items, p) # 0

\* schema of Product.quantity: min: [0, 'Quantity cannot be negative'],
\* checked by every product.save()
QuantityValid(product) == product.quantity >= 0

\* ----------------------------------------------------------- transactions
IdleTxn ==
    [kind |-> "", userId |-> "", orderId |-> 0, productId |-> "", status |-> "",
     idx |-> 0, email |-> "", affected |-> {}, cart |-> NoCart, order |-> NoOrder, newOrder |-> NoOrder,
     view |-> [p \in Products |-> NoProduct],
     wroteP |-> {}, wroteCart |-> FALSE, wroteOrder |-> FALSE,
     staleP |-> {}, staleCart |-> FALSE, staleOrder |-> FALSE]

\* the session of r has a transaction open
InTxn(r) ==
    pc[r] \in {"co_create", "co_reserve", "co_delcart", "co_commit",
               "ca_release", "ca_save", "ca_commit",
               "up_release", "up_save", "up_commit"}

\* WriteConflict on a product document for the transaction of r
ProductConflict(r, p) ==
    \/ p \in txn[r].staleP
    \/ \E r2 \in Reqs \ {r} : InTxn(r2) /\ p \in txn[r2].wroteP

ProductLocked(p) == \E r \in Reqs : InTxn(r) /\ p \in txn[r].wroteP

CartConflict(r) ==
    \/ txn[r].staleCart
    \/ \E r2 \in Reqs \ {r} :
          InTxn(r2) /\ txn[r2].wroteCart /\ txn[r2].userId = txn[r].userId

CartLocked(u) == \E r \in Reqs : InTxn(r) /\ txn[r].wroteCart /\ txn[r].userId = u

\* (mutant: a write to an order another transaction has changed goes through)
OrderConflictNever(r) == FALSE

\* WriteConflict on the order document for the transaction of r
OrderConflict(r) ==
    \/ txn[r].staleOrder
    \/ \E r2 \in Reqs \ {r} :
          InTxn(r2) /\ txn[r2].wroteOrder /\ txn[r2].orderId = txn[r].orderId

\* (mutant: a commit leaves the snapshots of the open transactions valid)
MarkStaleNothing(r, ps, cartUsers, orderIds) == txn

\* Documents written by r (or, r = "", outside any transaction) and now
\* committed are stale for the transactions that are open.
MarkStale(r, ps, cartUsers, orderIds) ==
    [r2 \in Reqs |->
        IF r2 # r /\ InTxn(r2)
        THEN [txn[r2] EXCEPT
                !.staleP = @ \cup ps,
                !.staleCart = @ \/ (txn[r2].kind = "createOrder"
                                    /\ txn[r2].userId \in cartUsers),
                !.staleOrder = @ \/ (txn[r2].kind # "createOrder"
                                     /\ txn[r2].orderId \in orderIds)]
        ELSE txn[r2]]

\* A request arrives at the router (the model follows MaxRequests of them)
\* and is served in the first free slot (the slots are interchangeable).
Accept(r) ==
    /\ pc[r] = "idle"
    /\ \A r2 \in Reqs : (r2 # r /\ pc[r2] = "idle") => r = "r1"
    /\ started < MaxRequests
    /\ started' = started + 1

\* finally { session.endSession() }: the handler's locals outlive the session
EndSession(t) ==
    [t EXCEPT !.view = IdleTxn.view, !.newOrder = NoOrder, !.idx = 0,
              !.staleP = {}, !.staleCart = FALSE, !.staleOrder = FALSE]

\* res.status(code).json({ success, error }) and the end of the handler
Respond(r, code, error) ==
    /\ pc' = [pc EXCEPT ![r] = "done"]
    /\ resp' = [resp EXCEPT ![r] = [code |-> code, error |-> error, logged |-> ""]]

\* (mutant: the catch block answers 500 but what the handler wrote stays)
AbortWithoutRollback(r, thrown) ==
    LET t == txn[r] IN
    /\ pc' = [pc EXCEPT ![r] = "done"]
    /\ resp' = [resp EXCEPT ![r] =
                   [code |-> 500, error |-> "Internal", logged |-> thrown]]
    /\ products' = [p \in Products |-> IF p \in t.wroteP THEN t.view[p] ELSE products[p]]
    /\ carts' = IF t.wroteCart THEN [carts EXCEPT ![t.userId] = NoCart] ELSE carts
    /\ txn' = [txn EXCEPT ![r] = EndSession(t)]
    /\ UNCHANGED <<orders, started, extraCarts>>

\* catch (error) { await session.abortTransaction(); console.error(..., error);
\*                 res.status(500) ... }: nothing the session wrote is kept
Abort(r, thrown) ==
    /\ pc' = [pc EXCEPT ![r] = "done"]
    /\ resp' = [resp EXCEPT ![r] =
                   [code |-> 500, error |-> "Internal", logged |-> thrown]]
    /\ txn' = [txn EXCEPT ![r] = EndSession(txn[r])]
    /\ UNCHANGED <<products, carts, orders, started, extraCarts>>

\* An awaited call of the transaction rejects for a reason of its own
\* (connection lost, commit refused)
StepThrows(r) ==
    /\ InTxn(r)
    /\ Abort(r, "NetworkError")

\* The response has left; the slot is free for the next request.
Finish(r) ==
    /\ pc[r] = "done"
    /\ pc' = [pc EXCEPT ![r] = "idle"]
    /\ resp' = [resp EXCEPT ![r] = NoResp]
    /\ txn' = [txn EXCEPT ![r] = IdleTxn]
    /\ UNCHANGED <<products, carts, orders, started, extraCarts>>

\* ------------------------------------------------------------------- Init
\* Both products are on sale; p1 is down to its last unit.
InitQuantities == {qty \in [Products -> 1..MaxQty] : qty["p1"] = 1}

Init ==
    /\ \E qty \in InitQuantities :
          products = [p \in Products |->
                        [exists |-> TRUE, name |-> ProductName(p),
                         price |-> ProductPrice(p), quantity |-> qty[p],
                         inStock |-> TRUE]]
    /\ carts = [u \in Users |-> NoCart]
    /\ orders = <<>>
    /\ pc = [r \in Reqs |-> "idle"]
    /\ txn = [r \in Reqs |-> IdleTxn]
    /\ resp = [r \in Reqs |-> NoResp]
    /\ started = 0
    /\ extraCarts = [u \in Users |-> 0]

\* ------------------------------------------------------------ addToCart
\* The cart controller's addToCart, taken as one step (it runs outside any
\* transaction; its cart.save() waits while a transaction holds the cart).

\* (mutant: the line is always pushed, a line of the product or not)
addToCartItemsAlwaysPush(cart, product, p, quantity) ==
    Append(cart.items,
           [productId |-> p, productName |-> product.name,
            price |-> product.price, quantity |-> quantity,
            subtotal |-> product.price * quantity])

\* the merge into the line of the product, or the push of a new line
addToCartItems(cart, product, p, quantity) ==
    LET i == findIndex(cart.items, p) IN
    IF i # 0
    THEN [cart.items EXCEPT
            ![i].quantity = cart.items[i].quantity + quantity,
            ![i].subtotal = product.price * (cart.items[i].quantity + quantity)]
    ELSE Append(cart.items,
                [productId |-> p, productName |-> product.name,
                 price |-> product.price, quantity |-> quantity,
                 subtotal |-> product.price * quantity])

\* validateCartItem: the quantity is a number and at least 1
ValidCartQuantity(quantity) == quantity >= 1

\* the handler's locals of a cart request
CartLocals(kind, u, p, quantity, idx) ==
    [IdleTxn EXCEPT !.kind = kind, !.userId = u]

\* (mutant: the lines are saved and the total is left as it was)
SaveCartKeepsTotal(r, u, items) ==
    /\ carts' = [carts EXCEPT ![u] =
                    [exists |-> TRUE, items |-> items,
                     total |-> IF carts[u].exists THEN carts[u].total ELSE 0]]
    /\ Respond(r, 200, "")

\* cart.total = calculateCartTotal(cart); await cart.save(); res.status(200)
SaveCart(r, u, items) ==
    /\ carts' = [carts EXCEPT ![u] =
                    [exists |-> TRUE, items |-> items,
                     total |-> calculateCartTotal([items |-> items])]]
    /\ Respond(r, 200, "")

\* (mutant: a merge is not checked against the stock)
addToCartNoMergeCheck(r, u, p, quantity) ==
    LET product == products[p]
        cart == IF carts[u].exists THEN carts[u]
                ELSE [exists |-> TRUE, items |-> <<>>, total |-> 0]
        locals == CartLocals("addToCart", u, p, quantity, 0)
    IN
    /\ Accept(r)
    /\ UNCHANGED extraCarts
    /\ ~CartLocked(u)
    /\ UNCHANGED <<products, orders>>
    /\ IF ~ValidCartQuantity(quantity)
       THEN /\ Respond(r, 400, "ValidationFailed")
            /\ txn' = [txn EXCEPT ![r] = locals]
            /\ UNCHANGED carts
       ELSE IF ~product.exists
       THEN /\ Respond(r, 404, "NotFound")
            /\ txn' = [txn EXCEPT ![r] = locals]
            /\ UNCHANGED carts
       ELSE IF ~product.inStock \/ product.quantity < quantity
       THEN /\ Respond(r, 400, "InsufficientStock")
            /\ txn' = [txn EXCEPT ![r] = locals]
            /\ UNCHANGED carts
       ELSE /\ SaveCart(r, u, addToCartItems(cart, product, p, quantity))
            /\ txn' = [MarkStale("", {}, {u}, {}) EXCEPT ![r] = locals]

\* validateCartItem, then addToCart: the product, the stock, the caller's cart
\* (created if there is none), the merge or the push, the total, the save
addToCart(r, u, p, quantity) ==
    LET product == products[p]
        cart == IF carts[u].exists THEN carts[u]
                ELSE [exists |-> TRUE, items |-> <<>>, total |-> 0]
        i == findIndex(cart.items, p)
    IN
    /\ Accept(r)
    /\ UNCHANGED extraCarts
    /\ ~CartLocked(u)
    /\ UNCHANGED <<products, orders>>
    /\ IF ~ValidCartQuantity(quantity)
       THEN /\ Respond(r, 400, "ValidationFailed")
            /\ txn' = [txn EXCEPT ![r] = CartLocals("addToCart", u, p, quantity, 0)]
            /\ UNCHANGED carts
       ELSE IF ~product.exists
       THEN /\ Respond(r, 404, "NotFound")
            /\ txn' = [txn EXCEPT ![r] = CartLocals("addToCart", u, p, quantity, 0)]
            /\ UNCHANGED carts
       ELSE IF ~product.inStock \/ product.quantity < quantity
       THEN /\ Respond(r, 400, "InsufficientStock")
            /\ txn' = [txn EXCEPT ![r] = CartLocals("addToCart", u, p, quantity, 0)]
            /\ UNCHANGED carts
       ELSE IF i # 0 /\ product.quantity < cart.items[i].quantity + quantity
       THEN /\ Respond(r, 400, "InsufficientStock")
            /\ txn' = [txn EXCEPT ![r] = CartLocals("addToCart", u, p, quantity, i)]
            /\ UNCHANGED carts
       ELSE /\ SaveCart(r, u, addToCartItems(cart, product, p, quantity))
            /\ txn' = [MarkStale("", {}, {u}, {}) EXCEPT
                          ![r] = CartLocals("addToCart", u, p, quantity, i)]

\* --------------------------------------------- the other cart requests
\* The ids a request may put in :itemId.  A line's _id is taken to be its
\* position at the time of the request; the last id names no line.
ItemIds == 1..(Cardinality(Products) + 1)

\* cart.items.find(i => i._id.toString() === itemId)
findItem(items, itemId) == IF itemId \in 1..Len(items) THEN itemId ELSE 0

\* CartItemSchema: quantity { required, min: 1 }, checked by cart.save()
CartItemValid(item) == item.quantity >= 1

\* item.quantity = quantity; item.subtotal = item.price * quantity
updateCartItemLine(items, i, quantity) ==
    [items EXCEPT ![i].quantity = quantity,
                  ![i].subtotal = items[i].price * quantity]

\* (mutant: the line is found and its product looked up, the stock is not
\* compared)
UpdateRefusalIgnoresStock(cart, itemId, quantity) ==
    IF ~cart.exists THEN "CartNotFound"
    ELSE IF findItem(cart.items, itemId) = 0 THEN "ItemNotFound"
    ELSE IF ~products[cart.items[findItem(cart.items, itemId)].productId].exists
    THEN "ProductGone"
    ELSE "ok"

\* the answer of updateCartItem before it writes: which check refuses
UpdateRefusal(cart, itemId, quantity) ==
    IF ~cart.exists THEN "CartNotFound"
    ELSE IF findItem(cart.items, itemId) = 0 THEN "ItemNotFound"
    ELSE LET product == products[cart.items[findItem(cart.items, itemId)].productId] IN
         IF ~product.exists THEN "ProductGone"
         ELSE IF ~product.inStock \/ product.quantity < quantity
         THEN "InsufficientStock"
         ELSE "ok"

updateCartItem(r, u, itemId, quantity) ==
    LET cart == carts[u]
        i == findItem(cart.items, itemId)
        refusal == UpdateRefusal(cart, itemId, quantity)
        locals == CartLocals("updateCartItem", u, "", quantity, itemId)
    IN
    /\ Accept(r)
    /\ UNCHANGED extraCarts
    /\ ~CartLocked(u)
    /\ UNCHANGED <<products, orders>>
    /\ IF refusal # "ok"
       THEN /\ Respond(r, IF refusal = "InsufficientStock" THEN 400 ELSE 404, refusal)
            /\ txn' = [txn EXCEPT ![r] = locals]
            /\ UNCHANGED carts
       ELSE IF ~CartItemValid(updateCartItemLine(cart.items, i, quantity)[i])
       THEN /\ pc' = [pc EXCEPT ![r] = "done"]
            /\ resp' = [resp EXCEPT ![r] =
                           [code |-> 500, error |-> "Internal",
                            logged |-> "ValidationError"]]
            /\ txn' = [txn EXCEPT ![r] = locals]
            /\ UNCHANGED carts
       ELSE /\ SaveCart(r, u, updateCartItemLine(cart.items, i, quantity))
            /\ txn' = [MarkStale("", {}, {u}, {}) EXCEPT ![r] = locals]

\* cart.items.splice(itemIndex, 1)
splice(items, i) == SubSeq(items, 1, i - 1) \o SubSeq(items, i + 1, Len(items))

removeFromCart(r, u, itemId) ==
    LET cart == carts[u]
        i == findItem(cart.items, itemId)
        locals == CartLocals("removeFromCart", u, "", 0, itemId)
    IN
    /\ Accept(r)
    /\ UNCHANGED extraCarts
    /\ ~CartLocked(u)
    /\ UNCHANGED <<products, orders>>
    /\ IF ~cart.exists
       THEN /\ Respond(r, 404, "CartNotFound")
            /\ txn' = [txn EXCEPT ![r] = locals]
            /\ UNCHANGED carts
       ELSE IF i = 0
       THEN /\ Respond(r, 404, "ItemNotFound")
            /\ txn' = [txn EXCEPT ![r] = locals]
            /\ UNCHANGED carts
       ELSE /\ SaveCart(r, u, splice(cart.items, i))
            /\ txn' = [MarkStale("", {}, {u}, {}) EXCEPT ![r] = locals]

\* cart.items = []; cart.total = 0; await cart.save()
clearCart(r, u) ==
    LET locals == CartLocals("clearCart", u, "", 0, 0) IN
    /\ Accept(r)
    /\ UNCHANGED extraCarts
    /\ ~CartLocked(u)
    /\ UNCHANGED <<products, orders>>
    /\ IF ~carts[u].exists
       THEN /\ Respond(r, 404, "CartNotFound")
            /\ txn' = [txn EXCEPT ![r] = locals]
            /\ UNCHANGED carts
       ELSE /\ carts' = [carts EXCEPT ![u] =
                            [exists |-> TRUE, items |-> <<>>, total |-> 0]]
            /\ Respond(r, 200, "")
            /\ txn' = [MarkStale("", {}, {u}, {}) EXCEPT ![r] = locals]

\* ---------------------------------------------------------- createOrder
\* (mutant: only the line at i is validated)
ValidateOnly(items, prods, i) ==
    IF i > Len(items) THEN "ok"
    ELSE LET product == prods[items[i].productId] IN
         IF ~product.exists THEN "ProductGone"
         ELSE IF ~product.inStock \/ product.quantity < items[i].quantity
              THEN "InsufficientStock"
         ELSE "ok"

\* The validation loop: the first offending line decides the error.
RECURSIVE ValidateFrom(_, _, _)
ValidateFrom(items, prods, i) ==
    IF i > Len(items) THEN "ok"
    ELSE LET product == prods[items[i].productId] IN
         IF ~product.exists THEN "ProductGone"
         ELSE IF ~product.inStock \/ product.quantity < items[i].quantity
              THEN "InsufficientStock"
         ELSE ValidateFrom(items, prods, i + 1)

\* if (!cart || cart.items.length === 0) ...; for (const item of cart.items) ...
ValidateCart(cart, prods) ==
    IF ~cart.exists \/ Len(cart.items) = 0 THEN "EmptyCart"
    ELSE ValidateFrom(cart.items, prods, 1)

\* cart.items.map(item => ({productId, productName, price, quantity, subtotal}))
orderItems(cart) ==
    [i \in 1..Len(cart.items) |->
        [productId |-> cart.items[i].productId,
         productName |-> cart.items[i].productName,
         price |-> cart.items[i].price,
         quantity |-> cart.items[i].quantity,
         subtotal |-> cart.items[i].subtotal]]

\* (mutant: the total is recomputed from the lines instead of copied)
NewOrderDocRecomputed(userId, cart) ==
    [userId |-> userId, items |-> orderItems(cart),
     total |-> SumSubtotals(cart.items), status |-> PENDING]

NewOrderDoc(userId, cart) ==
    [userId |-> userId, items |-> orderItems(cart), total |-> cart.total,
     status |-> PENDING]

\* (mutant: the flag is cleared while a unit is still left)
ReserveFlagsLastUnit(product, quantity) ==
    [product EXCEPT
        !.quantity = product.quantity - quantity,
        !.inStock = IF product.quantity - quantity <= 1 THEN FALSE ELSE product.inStock]

\* (mutant: the availability flag is not maintained)
ReserveKeepsFlag(product, quantity) ==
    [product EXCEPT !.quantity = product.quantity - quantity]

\* product.quantity -= item.quantity; if (product.quantity === 0) inStock = false
Reserve(product, quantity) ==
    [product EXCEPT
        !.quantity = product.quantity - quantity,
        !.inStock = IF product.quantity - quantity = 0 THEN FALSE ELSE product.inStock]

OpenCreates == Cardinality({r \in Reqs : txn[r].kind = "createOrder" /\ InTxn(r)})

\* startTransaction, Cart.findOne, the validation loop (reads of one snapshot)
createOrder_begin(r, u) ==
    LET cart == carts[u]
        v == ValidateCart(cart, products)
        locals == [IdleTxn EXCEPT !.kind = "createOrder", !.userId = u, !.cart = cart]
    IN
    /\ Accept(r)
    /\ UNCHANGED extraCarts
    /\ Len(orders) + OpenCreates < MaxOrders
    /\ UNCHANGED <<products, carts, orders>>
    /\ IF v = "ok"
       THEN /\ pc' = [pc EXCEPT ![r] = "co_create"]
            /\ txn' = [txn EXCEPT ![r] = [locals EXCEPT !.view = products]]
            /\ UNCHANGED resp
       ELSE /\ txn' = [txn EXCEPT ![r] = locals]
            /\ Respond(r, IF v = "ProductGone" THEN 404 ELSE 400, v)

\* Order.create([...], { session })
createOrder_create(r) ==
    /\ pc[r] = "co_create"
    /\ txn' = [txn EXCEPT ![r].newOrder = NewOrderDoc(txn[r].userId, txn[r].cart),
                          ![r].idx = 1]
    /\ pc' = [pc EXCEPT ![r] = "co_reserve"]
    /\ UNCHANGED <<products, carts, orders, resp, started, extraCarts>>

\* (mutant: the decrement is sent as an update outside the session, which
\* neither validates nor belongs to the transaction)
createOrder_reserveOutsideSession(r) ==
    LET t == txn[r]
        item == t.cart.items[t.idx]
        p == item.productId
    IN
    /\ pc[r] = "co_reserve"
    /\ products[p].exists
    /\ products' = [products EXCEPT ![p] = Reserve(products[p], item.quantity)]
    /\ txn' = [MarkStale("", {p}, {}, {}) EXCEPT ![r].idx = t.idx + 1]
    /\ pc' = [pc EXCEPT ![r] =
                 IF t.idx = Len(t.cart.items) THEN "co_delcart" ELSE "co_reserve"]
    /\ UNCHANGED <<carts, orders, resp, started, extraCarts>>

\* one turn of the stock loop: findById, decrement, product.save({ session })
createOrder_reserve(r) ==
    LET t == txn[r]
        item == t.cart.items[t.idx]
        p == item.productId
        product == t.view[p]
        saved == Reserve(product, item.quantity)
        nextPc == IF t.idx = Len(t.cart.items) THEN "co_delcart" ELSE "co_reserve"
    IN
    /\ pc[r] = "co_reserve"
    /\ IF ~product.exists
       THEN /\ txn' = [txn EXCEPT ![r].idx = t.idx + 1]
            /\ pc' = [pc EXCEPT ![r] = nextPc]
            /\ UNCHANGED <<products, carts, orders, resp, started, extraCarts>>
       ELSE IF ~QuantityValid(saved)
       THEN Abort(r, "ValidationError")
       ELSE IF ProductConflict(r, p)
       THEN Abort(r, "WriteConflict")
       ELSE /\ txn' = [txn EXCEPT ![r].idx = t.idx + 1,
                                  ![r].view[p] = saved,
                                  ![r].wroteP = @ \cup {p}]
            /\ pc' = [pc EXCEPT ![r] = nextPc]
            /\ UNCHANGED <<products, carts, orders, resp, started, extraCarts>>

\* Cart.findByIdAndDelete(cart._id).session(session)
createOrder_deleteCart(r) ==
    /\ pc[r] = "co_delcart"
    /\ IF CartConflict(r)
       THEN Abort(r, "WriteConflict")
       ELSE /\ txn' = [txn EXCEPT ![r].wroteCart = TRUE]
            /\ pc' = [pc EXCEPT ![r] = "co_commit"]
            /\ UNCHANGED <<products, carts, orders, resp, started, extraCarts>>

\* (mutant: the commit leaves the cart in place)
createOrder_commitKeepsCart(r) ==
    LET t == txn[r] IN
    /\ pc[r] = "co_commit"
    /\ products' = [p \in Products |-> IF p \in t.wroteP THEN t.view[p] ELSE products[p]]
    /\ orders' = Append(orders, t.newOrder)
    /\ txn' = [MarkStale(r, t.wroteP, {}, {}) EXCEPT
                  ![r] = [EndSession(t) EXCEPT !.orderId = Len(orders) + 1,
                                               !.email = "pending"]]
    /\ pc' = [pc EXCEPT ![r] = "co_email"]
    /\ UNCHANGED <<carts, resp, started, extraCarts>>

\* session.commitTransaction()
createOrder_commit(r) ==
    LET t == txn[r] IN
    /\ pc[r] = "co_commit"
    /\ products' = [p \in Products |-> IF p \in t.wroteP THEN t.view[p] ELSE products[p]]
    /\ orders' = Append(orders, t.newOrder)
    /\ carts' = [carts EXCEPT ![t.userId] = NoCart]
    /\ txn' = [MarkStale(r, t.wroteP, {t.userId}, {}) EXCEPT
                  ![r] = [EndSession(t) EXCEPT !.orderId = Len(orders) + 1,
                                               !.email = "pending"]]
    /\ pc' = [pc EXCEPT ![r] = "co_email"]
    /\ UNCHANGED <<resp, started, extraCarts>>

\* what becomes of an awaited send: it resolves, or it rejects
EmailOutcomes == {"sent", "failed"}

\* await emailService.sendOrderConfirmation(...) inside its own try/catch:
\* the handler goes on only when the send has settled; a rejection is logged
AwaitEmail(r, nextPc) ==
    /\ \E outcome \in EmailOutcomes :
          txn' = [txn EXCEPT ![r].email = outcome]
    /\ pc' = [pc EXCEPT ![r] = nextPc]
    /\ UNCHANGED <<products, carts, orders, resp, started, extraCarts>>

\* res.status(code) after the email block
RespondAfterEmail(r, code) ==
    /\ pc' = [pc EXCEPT ![r] = "done"]
    /\ resp' = [resp EXCEPT ![r] =
                   [code |-> code, error |-> "",
                    logged |-> IF txn[r].email = "failed" THEN "EmailError" ELSE ""]]
    /\ UNCHANGED <<products, carts, orders, txn, started, extraCarts>>

createOrder_email(r) ==
    /\ pc[r] = "co_email"
    /\ AwaitEmail(r, "co_respond")

\* (mutant: a rejected send reaches the outer catch)
createOrder_respondEmailSurfaces(r) ==
    /\ pc[r] = "co_respond"
    /\ IF txn[r].email = "failed"
       THEN Abort(r, "EmailError")
       ELSE RespondAfterEmail(r, 201)

\* res.status(201).json({ success: true, data: newOrder })
createOrder_respond(r) ==
    /\ pc[r] = "co_respond"
    /\ RespondAfterEmail(r, 201)

\* (mutant: the release restores the units and leaves the flag alone)
ReleaseKeepsFlag(product, quantity) ==
    [product EXCEPT !.quantity = product.quantity + quantity]

\* -------------------------------------------------------- cancelMyOrder
\* product.quantity += item.quantity; product.inStock = true
Release(product, quantity) ==
    [product EXCEPT !.quantity = product.quantity + quantity, !.inStock = TRUE]

\* one turn of a release loop: findById, restore, product.save({ session })
ReleaseStep(r, savePc) ==
    LET t == txn[r]
        item == t.order.items[t.idx]
        p == item.productId
        product == t.view[p]
        saved == Release(product, item.quantity)
        nextPc == IF t.idx = Len(t.order.items) THEN savePc ELSE pc[r]
    IN
    IF ~product.exists
    THEN /\ txn' = [txn EXCEPT ![r].idx = t.idx + 1]
         /\ pc' = [pc EXCEPT ![r] = nextPc]
         /\ UNCHANGED <<products, carts, orders, resp, started, extraCarts>>
    ELSE IF ~QuantityValid(saved)
    THEN Abort(r, "ValidationError")
    ELSE IF ProductConflict(r, p)
    THEN Abort(r, "WriteConflict")
    ELSE /\ txn' = [txn EXCEPT ![r].idx = t.idx + 1,
                               ![r].view[p] = saved,
                               ![r].wroteP = @ \cup {p}]
         /\ pc' = [pc EXCEPT ![r] = nextPc]
         /\ UNCHANGED <<products, carts, orders, resp, started, extraCarts>>

\* order.status = status; await order.save({ session })
\* (a save that changes no field sends no write)
SaveStatusStep(r, status, commitPc) ==
    IF status # txn[r].order.status /\ OrderConflict(r)
    THEN Abort(r, "WriteConflict")
    ELSE /\ txn' = [txn EXCEPT ![r].order.status = status,
                               ![r].wroteOrder = (status # txn[r].order.status)]
         /\ pc' = [pc EXCEPT ![r] = commitPc]
         /\ UNCHANGED <<products, carts, orders, resp, started, extraCarts>>

\* session.commitTransaction() of a status change
CommitStatus(r) ==
    LET t == txn[r] IN
    /\ products' = [p \in Products |-> IF p \in t.wroteP THEN t.view[p] ELSE products[p]]
    /\ orders' = IF t.wroteOrder
                 THEN [orders EXCEPT ![t.orderId].status = t.order.status]
                 ELSE orders
    /\ txn' = [MarkStale(r, t.wroteP, {}, IF t.wroteOrder THEN {t.orderId} ELSE {})
                  EXCEPT ![r] = EndSession(t)]
    /\ UNCHANGED <<carts, started, extraCarts>>

\* Order.findOne({ _id: id, userId })
findOwnOrder(id, u) ==
    IF id <= Len(orders) /\ orders[id].userId = u THEN orders[id] ELSE NoOrder

\* (mutants: the customer's cancel under the admin's rule; the check left out)
CancellableUnlessTerminal(order) == order.status \notin {DELIVERED, CANCELLED}

CancellableAlways(order) == TRUE

\* if (order.status !== OrderStatus.PENDING) -> 400
Cancellable(order) == order.status = PENDING

\* startTransaction, Order.findOne({ _id: id, userId }), the status check
cancelMyOrder_begin(r, u, id) ==
    LET order == findOwnOrder(id, u)
        locals == [IdleTxn EXCEPT !.kind = "cancelMyOrder", !.userId = u,
                                  !.orderId = id, !.order = order]
    IN
    /\ Accept(r)
    /\ UNCHANGED extraCarts
    /\ UNCHANGED <<products, carts, orders>>
    /\ IF order = NoOrder
       THEN /\ txn' = [txn EXCEPT ![r] = locals]
            /\ Respond(r, 404, "NotFound")
       ELSE IF ~Cancellable(order)
       THEN /\ txn' = [txn EXCEPT ![r] = locals]
            /\ Respond(r, 400, "InvalidTransition")
       ELSE /\ pc' = [pc EXCEPT ![r] = "ca_release"]
            /\ txn' = [txn EXCEPT ![r] = [locals EXCEPT !.idx = 1, !.view = products]]
            /\ UNCHANGED resp

cancelMyOrder_release(r) ==
    /\ pc[r] = "ca_release"
    /\ ReleaseStep(r, "ca_save")

cancelMyOrder_save(r) ==
    /\ pc[r] = "ca_save"
    /\ SaveStatusStep(r, CANCELLED, "ca_commit")

\* commitTransaction, then res.status(200)
cancelMyOrder_commit(r) ==
    /\ pc[r] = "ca_commit"
    /\ CommitStatus(r)
    /\ Respond(r, 200, "")

\* ---------------------------------------------------- updateOrderStatus
\* validateOrderStatus and the controller's own check of req.body.status
ValidStatus(status) == status \in OrderStatus

StatusInputs == OrderStatus \cup {"refunded"}

\* (mutant: a cancelled order is not final)
StatusLockedDeliveredOnly(order) == order.status = DELIVERED

\* (mutant: only CANCELLED is treated as final)
StatusLockedCancelledOnly(order) == order.status = CANCELLED

\* if (order.status === DELIVERED || order.status === CANCELLED) -> 400
StatusLocked(order) == order.status = DELIVERED \/ order.status = CANCELLED

\* startTransaction, the status check, Order.findById, the terminal check
updateOrderStatus_begin(r, id, status) ==
    LET order == IF id <= Len(orders) THEN orders[id] ELSE NoOrder
        locals == [IdleTxn EXCEPT !.kind = "updateOrderStatus", !.orderId = id,
                                  !.status = status,
                                  !.order = IF ValidStatus(status) THEN order ELSE NoOrder]
    IN
    /\ Accept(r)
    /\ UNCHANGED extraCarts
    /\ UNCHANGED <<products, carts, orders>>
    /\ IF ~ValidStatus(status)
       THEN /\ txn' = [txn EXCEPT ![r] = locals]
            /\ Respond(r, 400, "ValidationFailed")
       ELSE IF order = NoOrder
       THEN /\ txn' = [txn EXCEPT ![r] = locals]
            /\ Respond(r, 404, "NotFound")
       ELSE IF StatusLocked(order)
       THEN /\ txn' = [txn EXCEPT ![r] = locals]
            /\ Respond(r, 400, "InvalidTransition")
       ELSE /\ pc' = [pc EXCEPT ![r] =
                         IF status = CANCELLED THEN "up_release" ELSE "up_save"]
            /\ txn' = [txn EXCEPT ![r] = [locals EXCEPT !.idx = 1, !.view = products]]
            /\ UNCHANGED resp

\* (mutant: the admin's cancellation writes the status and releases nothing)
updateOrderStatus_skipRelease(r) ==
    /\ pc[r] = "up_release"
    /\ pc' = [pc EXCEPT ![r] = "up_save"]
    /\ UNCHANGED <<products, carts, orders, txn, resp, started, extraCarts>>

\* if (status === OrderStatus.CANCELLED) { release loop }
updateOrderStatus_release(r) ==
    /\ pc[r] = "up_release"
    /\ ReleaseStep(r, "up_save")

updateOrderStatus_save(r) ==
    /\ pc[r] = "up_save"
    /\ SaveStatusStep(r, txn[r].status, "up_commit")

updateOrderStatus_commit(r) ==
    /\ pc[r] = "up_commit"
    /\ CommitStatus(r)
    /\ pc' = [pc EXCEPT ![r] = "up_email"]
    /\ UNCHANGED resp

\* await emailService.sendOrderStatusUpdate(...) inside its own try/catch
updateOrderStatus_email(r) ==
    /\ pc[r] = "up_email"
    /\ AwaitEmail(r, "up_respond")

\* res.status(200).json({ success: true, data: order })
updateOrderStatus_respond(r) ==
    /\ pc[r] = "up_respond"
    /\ RespondAfterEmail(r, 200)

\* ---------------------------------------------------------- updateProduct
\* The request bodies followed: a re-pricing under a new name, a restock to
\* a given quantity, a switch of the availability flag.
UpdateBodies ==
    {[price |-> 3, name |-> "renamed"]}
    \cup {[quantity |-> q] : q \in 0..MaxQty}
    \cup {[inStock |-> b] : b \in BOOLEAN}

\* if (name) ...; if (price !== undefined) ...; if (inStock !== undefined) ...;
\* if (quantity !== undefined) ...
applyBody(product, body) ==
    [exists |-> TRUE,
     name |-> IF "name" \in DOMAIN body THEN body.name ELSE product.name,
     price |-> IF "price" \in DOMAIN body THEN body.price ELSE product.price,
     quantity |-> IF "quantity" \in DOMAIN body THEN body.quantity
                  ELSE product.quantity,
     inStock |-> IF "inStock" \in DOMAIN body THEN body.inStock
                 ELSE product.inStock]

\* (mutant: a product update is carried into the orders that hold it)
updateProductCascades(r, id, body) ==
    LET locals == [IdleTxn EXCEPT !.kind = "updateProduct", !.productId = id]
        saved == applyBody(products[id], body)
    IN
    /\ Accept(r)
    /\ UNCHANGED extraCarts
    /\ UNCHANGED carts
    /\ IF ~products[id].exists
       THEN /\ Respond(r, 404, "NotFound")
            /\ txn' = [txn EXCEPT ![r] = locals]
            /\ UNCHANGED <<products, orders>>
       ELSE /\ ~ProductLocked(id)
            /\ products' = [products EXCEPT ![id] = saved]
            /\ orders' = [n \in 1..Len(orders) |->
                            [orders[n] EXCEPT !.items =
                                [i \in 1..Len(orders[n].items) |->
                                    IF orders[n].items[i].productId = id
                                    THEN [orders[n].items[i] EXCEPT
                                             !.price = saved.price,
                                             !.productName = saved.name]
                                    ELSE orders[n].items[i]]]]
            /\ txn' = [MarkStale("", {id}, {}, {}) EXCEPT ![r] = locals]
            /\ Respond(r, 200, "")

\* Product.findById(id); set the fields given; product.save()
updateProduct(r, id, body) ==
    LET locals == [IdleTxn EXCEPT !.kind = "updateProduct", !.productId = id] IN
    /\ Accept(r)
    /\ UNCHANGED extraCarts
    /\ UNCHANGED <<carts, orders>>
    /\ IF ~products[id].exists
       THEN /\ Respond(r, 404, "NotFound")
            /\ txn' = [txn EXCEPT ![r] = locals]
            /\ UNCHANGED products
       ELSE /\ ~ProductLocked(id)
            /\ products' = [products EXCEPT ![id] = applyBody(products[id], body)]
            /\ txn' = [MarkStale("", {id}, {}, {}) EXCEPT ![r] = locals]
            /\ Respond(r, 200, "")

\* ---------------------------------------------------------- deleteProduct
\* Product.findById, then Cart.updateMany({'items.productId': id}, {$pull ...})
deleteProduct_pull(r, id) ==
    LET hit == {u \in Users : HasItem(carts[u], id)}
        locals == [IdleTxn EXCEPT !.kind = "deleteProduct", !.productId = id,
                                  !.affected = hit]
    IN
    /\ Accept(r)
    /\ UNCHANGED extraCarts
    /\ UNCHANGED <<products, orders>>
    /\ IF ~products[id].exists
       THEN /\ txn' = [txn EXCEPT ![r] = locals]
            /\ Respond(r, 404, "NotFound")
            /\ UNCHANGED carts
       ELSE /\ \A u \in hit : ~CartLocked(u)
            /\ carts' = [u \in Users |->
                            IF u \in hit
                            THEN [carts[u] EXCEPT !.items = PullItems(carts[u].items, id)]
                            ELSE carts[u]]
            /\ txn' = [MarkStale("", {}, hit, {}) EXCEPT ![r] = locals]
            /\ pc' = [pc EXCEPT ![r] = "dp_delete"]
            /\ UNCHANGED resp

\* Cart.find({'items.productId': id}): recompute and save each total; then
\* Product.findByIdAndDelete(id) and res.status(200)
deleteProduct_delete(r) ==
    LET id == txn[r].productId
        affectedCarts == {u \in Users : HasItem(carts[u], id)}
    IN
    /\ pc[r] = "dp_delete"
    /\ ~ProductLocked(id)
    /\ \A u \in affectedCarts : ~CartLocked(u)
    /\ carts' = [u \in Users |->
                    IF u \in affectedCarts
                    THEN [carts[u] EXCEPT !.total = calculateCartTotal(carts[u])]
                    ELSE carts[u]]
    /\ products' = [products EXCEPT ![id] = NoProduct]
    /\ txn' = MarkStale("", {id}, affectedCarts, {})
    /\ Respond(r, 200, "")
    /\ UNCHANGED <<orders, started, extraCarts>>

\* ------------------------------------------------------------------- Next
\* The order ids a request may name: those in use and one that is not.
OrderIds == 1..(IF Len(orders) < MaxOrders THEN Len(orders) + 1 ELSE MaxOrders)

\* The callers a request may come from.  Until a user has left a trace (a
\* cart, an order, a request being served) the users are interchangeable and
\* the first to act is called u1.
Callers ==
    IF \/ \E u \in Users : carts[u].exists
       \/ orders # <<>>
       \/ \E r \in Reqs : txn[r].userId # ""
    THEN Users ELSE {"u1"}

\* the requests of the order routes, fed by addToCart and crossed by
\* deleteProduct
Next ==
    \/ \E r \in Reqs, u \in Callers, p \in Products, q \in 0..MaxQty :
          addToCart(r, u, p, q)
    \/ \E r \in Reqs, u \in Callers : createOrder_begin(r, u)
    \/ \E r \in Reqs : createOrder_create(r)
    \/ \E r \in Reqs : createOrder_reserve(r)
    \/ \E r \in Reqs : createOrder_deleteCart(r)
    \/ \E r \in Reqs : createOrder_commit(r)
    \/ \E r \in Reqs : createOrder_email(r)
    \/ \E r \in Reqs : createOrder_respond(r)
    \/ \E r \in Reqs, u \in Callers, id \in OrderIds : cancelMyOrder_begin(r, u, id)
    \/ \E r \in Reqs : cancelMyOrder_release(r)
    \/ \E r \in Reqs : cancelMyOrder_save(r)
    \/ \E r \in Reqs : cancelMyOrder_commit(r)
    \/ \E r \in Reqs, id \in OrderIds, status \in StatusInputs :
          updateOrderStatus_begin(r, id, status)
    \/ \E r \in Reqs : updateOrderStatus_release(r)
    \/ \E r \in Reqs : updateOrderStatus_save(r)
    \/ \E r \in Reqs : updateOrderStatus_commit(r)
    \/ \E r \in Reqs : updateOrderStatus_email(r)
    \/ \E r \in Reqs : updateOrderStatus_respond(r)
    \/ \E r \in Reqs, id \in Products : deleteProduct_pull(r, id)
    \/ \E r \in Reqs : deleteProduct_delete(r)
    \/ \E r \in Reqs : StepThrows(r)
    \/ \E r \in Reqs : Finish(r)

Spec == Init /\ [][Next]_vars

\* the requests of the cart routes, followed for one customer (a cart
\* request touches no cart but the caller's), and of the product routes
Shoppers == {"u1"}

CartNext ==
    \/ \E r \in Reqs, u \in Shoppers, p \in Products, q \in 0..MaxQty :
          addToCart(r, u, p, q)
    \/ \E r \in Reqs, u \in Shoppers, itemId \in ItemIds, q \in 0..MaxQty :
          updateCartItem(r, u, itemId, q)
    \/ \E r \in Reqs, u \in Shoppers, itemId \in ItemIds : removeFromCart(r, u, itemId)
    \/ \E r \in Reqs, u \in Shoppers : clearCart(r, u)
    \/ \E r \in Reqs, id \in Products, body \in UpdateBodies :
          updateProduct(r, id, body)
    \/ \E r \in Reqs, id \in Products : deleteProduct_pull(r, id)
    \/ \E r \in Reqs : deleteProduct_delete(r)
    \/ \E r \in Reqs : Finish(r)

CartSpec == Init /\ [][CartNext]_vars

\* every route together
ShopNext == Next \/ CartNext

ShopSpec == Init /\ [][ShopNext]_vars


\* ------------------------------------------- the lazily created cart
\* getCart and addToCart followed await by await, for the requests of one
\* user that overlap: Cart.findOne, Cart.create when there is none, and for
\* addToCart the cart.save() of the line.

\* a cart as Cart.create({ userId, items: [], total: 0 }) stores it
EmptyCart == [exists |-> TRUE, items |-> <<>>, total |-> 0]

\* the documents of the Cart collection that carry userId u
CartCount(u) == (IF carts[u].exists THEN 1 ELSE 0) + extraCarts[u]

\* (mutant: the collection has no unique index on userId)
DuplicateKeyNever(u) == FALSE

\* CartSchema: userId { unique: true }: an insert for a user who has a cart
\* document is refused with E11000 duplicate key
DuplicateKey(u) == CartCount(u) > 0

\* catch (error) { console.error(...); res.status(500) } of a cart handler
CartFails(r, thrown) ==
    /\ pc' = [pc EXCEPT ![r] = "done"]
    /\ resp' = [resp EXCEPT ![r] =
                   [code |-> 500, error |-> "Internal", logged |-> thrown]]

\* the insert of Cart.create: one more document with userId u
InsertCart(u) ==
    IF carts[u].exists
    THEN /\ extraCarts' = [extraCarts EXCEPT ![u] = @ + 1]
         /\ UNCHANGED carts
    ELSE /\ carts' = [carts EXCEPT ![u] = EmptyCart]
         /\ UNCHANGED extraCarts

\* let cart = await Cart.findOne({ userId }).populate(...)
getCart_find(r, u) ==
    LET locals == [IdleTxn EXCEPT !.kind = "getCart", !.userId = u,
                                  !.cart = carts[u]]
    IN
    /\ Accept(r)
    /\ txn' = [txn EXCEPT ![r] = locals]
    /\ UNCHANGED <<products, carts, orders, extraCarts>>
    /\ IF carts[u].exists
       THEN Respond(r, 200, "")
       ELSE /\ pc' = [pc EXCEPT ![r] = "gc_create"]
            /\ UNCHANGED resp

\* if (!cart) cart = await Cart.create(...); res.status(200)
getCart_create(r) ==
    LET u == txn[r].userId IN
    /\ pc[r] = "gc_create"
    /\ ~CartLocked(u)
    /\ UNCHANGED <<products, orders, started>>
    /\ IF DuplicateKey(u)
       THEN /\ CartFails(r, "DuplicateKey")
            /\ UNCHANGED <<carts, extraCarts, txn>>
       ELSE /\ InsertCart(u)
            /\ txn' = MarkStale("", {}, {u}, {})
            /\ Respond(r, 200, "")

\* The document addToCart holds in memory once it has merged or pushed the
\* line and set the total: `cart` is what Cart.findOne found (EmptyCart
\* stands for the document Cart.create will return).
addToCartDoc(cart, product, p, quantity) ==
    [exists |-> TRUE,
     items |-> addToCartItems(cart, product, p, quantity),
     total |-> SumSubtotals(addToCartItems(cart, product, p, quantity))]

\* validateCartItem, Product.findById and the stock check, Cart.findOne, and
\* what the handler computes from them before its next write
addToCart_find(r, u, p, quantity) ==
    LET product == products[p]
        found == carts[u]
        cart == IF found.exists THEN found ELSE EmptyCart
        i == findIndex(cart.items, p)
        locals == [IdleTxn EXCEPT !.kind = "addToCart", !.userId = u,
                                  !.productId = p]
    IN
    /\ Accept(r)
    /\ UNCHANGED <<products, carts, orders, extraCarts>>
    /\ IF ~ValidCartQuantity(quantity)
       THEN /\ Respond(r, 400, "ValidationFailed")
            /\ txn' = [txn EXCEPT ![r] = locals]
       ELSE IF ~product.exists
       THEN /\ Respond(r, 404, "NotFound")
            /\ txn' = [txn EXCEPT ![r] = locals]
       ELSE IF ~product.inStock \/ product.quantity < quantity
       THEN /\ Respond(r, 400, "InsufficientStock")
            /\ txn' = [txn EXCEPT ![r] = locals]
       ELSE IF i # 0 /\ product.quantity < cart.items[i].quantity + quantity
       THEN /\ Respond(r, 400, "InsufficientStock")
            /\ txn' = [txn EXCEPT ![r] = [locals EXCEPT !.idx = i]]
       ELSE /\ pc' = [pc EXCEPT ![r] = IF found.exists THEN "ac_save" ELSE "ac_create"]
            /\ txn' = [txn EXCEPT ![r] =
                          [locals EXCEPT !.idx = i,
                                         !.cart = addToCartDoc(cart, product, p, quantity)]]
            /\ UNCHANGED resp

\* if (!cart) cart = await Cart.create({ userId, items: [], total: 0 })
addToCart_create(r) ==
    LET u == txn[r].userId IN
    /\ pc[r] = "ac_create"
    /\ ~CartLocked(u)
    /\ UNCHANGED <<products, orders, started>>
    /\ IF DuplicateKey(u)
       THEN /\ CartFails(r, "DuplicateKey")
            /\ UNCHANGED <<carts, extraCarts, txn>>
       ELSE /\ InsertCart(u)
            /\ txn' = MarkStale("", {}, {u}, {})
            /\ pc' = [pc EXCEPT ![r] = "ac_save"]
            /\ UNCHANGED resp

\* await cart.save() of a document that was loaded or created before: the
\* changes are sent, not the document.  A pushed line goes as $push, which
\* raises the version __v and needs none; a merged line goes as $set on
\* items.<i>, which is sent for the version that was loaded.  (Of the
\* requests followed here only a push changes __v, and the number of lines
\* with it.)
addToCart_save(r) ==
    LET u == txn[r].userId
        doc == txn[r].cart
        i == txn[r].idx
        stored == carts[u]
    IN
    /\ pc[r] = "ac_save"
    /\ ~CartLocked(u)
    /\ UNCHANGED <<products, orders, started, extraCarts>>
    /\ IF ~stored.exists
       THEN /\ CartFails(r, "DocumentNotFoundError")
            /\ UNCHANGED <<carts, txn>>
       ELSE IF i = 0
       THEN /\ carts' = [carts EXCEPT ![u].items = Append(stored.items, doc.items[Len(doc.items)]),
                                      ![u].total = doc.total]
            /\ txn' = MarkStale("", {}, {u}, {})
            /\ Respond(r, 200, "")
       ELSE IF Len(stored.items) # Len(doc.items)
       THEN /\ CartFails(r, "VersionError")
            /\ UNCHANGED <<carts, txn>>
       ELSE /\ carts' = [carts EXCEPT ![u].items[i].quantity = doc.items[i].quantity,
                                      ![u].items[i].subtotal = doc.items[i].subtotal,
                                      ![u].total = doc.total]
            /\ txn' = MarkStale("", {}, {u}, {})
            /\ Respond(r, 200, "")

LazyNext ==
    \/ \E r \in Reqs, u \in Callers : getCart_find(r, u)
    \/ \E r \in Reqs : getCart_create(r)
    \/ \E r \in Reqs, u \in Callers, p \in Products, q \in 0..MaxQty :
          addToCart_find(r, u, p, q)
    \/ \E r \in Reqs : addToCart_create(r)
    \/ \E r \in Reqs : addToCart_save(r)
    \/ \E r \in Reqs : Finish(r)

LazySpec == Init /\ [][LazyNext]_vars
\* =================================================================
\* Properties
\* =================================================================
Terminal == {DELIVERED, CANCELLED}

\* the edges of the order state machine of the specification
Edges ==
    {<<PENDING, CONFIRMED>>, <<PENDING, CANCELLED>>,
     <<CONFIRMED, SHIPPED>>, <<CONFIRMED, CANCELLED>>,
     <<SHIPPED, DELIVERED>>, <<SHIPPED, CANCELLED>>}

\* units of product p that the lines of an order (or a cart) hold
RECURSIVE QtyOf(_, _)
QtyOf(items, p) ==
    IF items = <<>> THEN 0
    ELSE (IF Head(items).productId = p THEN Head(items).quantity ELSE 0)
         + QtyOf(Tail(items), p)

DbUnchanged == products' = products /\ carts' = carts /\ orders' = orders

\* request slot r takes a request of the given kind in this step
Begins(r, kind) == pc[r] = "idle" /\ pc'[r] # "idle" /\ txn'[r].kind = kind

\* an order document is inserted in this step
OrderInserted == Len(orders') = Len(orders) + 1

\* ----------------------------------------------------------------- C1
\* C1: every change of an order's status follows an edge of the state
\* machine PENDING->{CONFIRMED,CANCELLED}, CONFIRMED->{SHIPPED,CANCELLED},
\* SHIPPED->{DELIVERED,CANCELLED}; no other pair (old, new) ever occurs.
C1_OnlyStateMachineEdges ==
    [][\A id \in 1..Len(orders) :
          orders'[id].status # orders[id].status
             => <<orders[id].status, orders'[id].status>> \in Edges]_vars

\* ----------------------------------------------------------------- C2
\* C2: updateOrderStatus on an order that is DELIVERED or CANCELLED answers
\* InvalidTransition for every status of the enumeration and changes no
\* order, product or cart; no step ever moves an order out of DELIVERED or
\* CANCELLED.
C2_TerminalStatusLocked ==
    [][/\ \A r \in Reqs :
            (/\ Begins(r, "updateOrderStatus")
             /\ txn'[r].status \in OrderStatus
             /\ txn'[r].orderId <= Len(orders)
             /\ orders[txn'[r].orderId].status \in Terminal)
            => (/\ pc'[r] = "done"
                /\ resp'[r].code = 400
                /\ resp'[r].error = "InvalidTransition"
                /\ DbUnchanged)
       /\ \A id \in 1..Len(orders) :
            orders[id].status \in Terminal => orders'[id].status = orders[id].status
      ]_vars

\* Scenario D: updateOrderStatus(O1, CANCELLED) on a DELIVERED order was refused
C2_Witness ==
    \E r \in Reqs :
        /\ pc[r] = "done"
        /\ txn[r].kind = "updateOrderStatus"
        /\ txn[r].status = CANCELLED
        /\ txn[r].order.status = DELIVERED
        /\ resp[r].error = "InvalidTransition"

\* ----------------------------------------------------------------- C3
\* C3: cancelMyOrder on the caller's own order whose status is not PENDING
\* answers InvalidTransition and changes no order, product or cart; and a
\* cancelMyOrder that answers 200 has moved the order from PENDING to
\* CANCELLED.
C3_CancelOnlyPending ==
    [][\A r \in Reqs :
         /\ (/\ Begins(r, "cancelMyOrder")
             /\ txn'[r].orderId <= Len(orders)
             /\ orders[txn'[r].orderId].userId = txn'[r].userId
             /\ orders[txn'[r].orderId].status # PENDING)
            => (/\ pc'[r] = "done"
                /\ resp'[r].code = 400
                /\ resp'[r].error = "InvalidTransition"
                /\ DbUnchanged)
         /\ (/\ txn[r].kind = "cancelMyOrder"
             /\ pc[r] # "done"
             /\ pc'[r] = "done"
             /\ resp'[r].code = 200)
            => (/\ orders[txn[r].orderId].status = PENDING
                /\ orders'[txn[r].orderId].status = CANCELLED)
      ]_vars

\* a customer's cancel of a CONFIRMED order was refused
C3_Witness ==
    \E r \in Reqs :
        /\ pc[r] = "done"
        /\ txn[r].kind = "cancelMyOrder"
        /\ txn[r].order.status = CONFIRMED
        /\ resp[r].code = 400
        /\ resp[r].error = "InvalidTransition"

\* ----------------------------------------------------------------- C4
\* C4: cancelMyOrder on an order that is already CANCELLED answers
\* InvalidTransition and changes nothing; a product's quantity grows only in
\* the step that moves one order into CANCELLED, by exactly that order's
\* quantity of the product; a CANCELLED order stays CANCELLED.  So the stock
\* of an order is released exactly once.
C4_ReleasedExactlyOnce ==
    [][/\ \A r \in Reqs :
            (/\ Begins(r, "cancelMyOrder")
             /\ txn'[r].orderId <= Len(orders)
             /\ orders[txn'[r].orderId].userId = txn'[r].userId
             /\ orders[txn'[r].orderId].status = CANCELLED)
            => (/\ pc'[r] = "done"
                /\ resp'[r].error = "InvalidTransition"
                /\ DbUnchanged)
       /\ \A p \in Products :
            (products'[p].exists /\ products'[p].quantity > products[p].quantity)
            => \E id \in 1..Len(orders) :
                  /\ orders[id].status # CANCELLED
                  /\ orders'[id].status = CANCELLED
                  /\ products'[p].quantity
                        = products[p].quantity + QtyOf(orders[id].items, p)
       /\ \A id \in 1..Len(orders) :
            orders[id].status = CANCELLED => orders'[id].status = CANCELLED
      ]_vars

\* the second cancel of an order of the last unit of p1 was refused, and p1
\* is back at one unit
C4_Witness ==
    \E r \in Reqs :
        /\ pc[r] = "done"
        /\ txn[r].kind = "cancelMyOrder"
        /\ txn[r].order.status = CANCELLED
        /\ resp[r].error = "InvalidTransition"
        /\ QtyOf(txn[r].order.items, "p1") = 1
        /\ Len(orders) = 1
        /\ products["p1"].quantity = 1

\* ----------------------------------------------------------------- C5
\* a cart whose only line asks for one unit of p1, the product on its last unit
LastUnitCart(cart) ==
    /\ cart.exists
    /\ Len(cart.items) = 1
    /\ cart.items[1].productId = "p1"
    /\ cart.items[1].quantity = 1

OrdersOf(p) == {id \in 1..Len(orders) : QtyOf(orders[id].items, p) > 0}

\* two createOrder requests of different users, each for the last unit of
\* p1, have both been answered; no call was cut by the network and no order
\* was cancelled in between
LastUnitRaceOver(a, b) ==
    /\ a # b
    /\ pc[a] = "done" /\ pc[b] = "done"
    /\ txn[a].kind = "createOrder" /\ txn[b].kind = "createOrder"
    /\ txn[a].userId # txn[b].userId
    /\ LastUnitCart(txn[a].cart) /\ LastUnitCart(txn[b].cart)
    /\ resp[a].logged # "NetworkError" /\ resp[b].logged # "NetworkError"
    /\ \A id \in 1..Len(orders) : orders[id].status # CANCELLED

\* C5: of two createOrder calls by different users that each ask for the
\* last unit of a product, under every interleaving exactly one succeeds,
\* the other fails with InsufficientStock/OutOfStock, exactly one order is
\* persisted and the product ends at quantity 0.
C5_LastUnitExactlyOneWins ==
    \A a, b \in Reqs :
        LastUnitRaceOver(a, b)
        => /\ resp[a].code = 201
           /\ resp[b].code # 201
           /\ resp[b].error \in {"InsufficientStock", "OutOfStock"}
           /\ Cardinality(OrdersOf("p1")) = 1
           /\ products["p1"].quantity = 0
           \/
           /\ resp[b].code = 201
           /\ resp[a].code # 201
           /\ resp[a].error \in {"InsufficientStock", "OutOfStock"}
           /\ Cardinality(OrdersOf("p1")) = 1
           /\ products["p1"].quantity = 0

\* ----------------------------------------------------------------- C6
\* C6: in every reachable state every product's committed quantity is >= 0.
C6_QuantityNeverNegative ==
    \A p \in Products : products[p].quantity >= 0

\* two checkouts raced for the last unit of p1: one is committed, the other
\* was thrown out by a write conflict, and p1 stands at 0
C6_Witness ==
    \E a, b \in Reqs :
        /\ LastUnitRaceOver(a, b)
        /\ resp[a].code = 201
        /\ resp[b].logged = "WriteConflict"
        /\ products["p1"].quantity = 0

\* ----------------------------------------------------------------- C7
\* the cart is absent or empty, or one of its lines names a product that no
\* longer exists, is not in stock, or has fewer units than the line asks
MustFailValidation(cart, prods) ==
    \/ ~cart.exists
    \/ cart.items = <<>>
    \/ \E i \in 1..Len(cart.items) :
          LET product == prods[cart.items[i].productId] IN
          \/ ~product.exists
          \/ ~product.inStock
          \/ product.quantity < cart.items[i].quantity

\* C7: whenever createOrder meets a cart that must fail validation, at any
\* line, it answers with an error and no order is persisted, no product
\* changes and the cart (items and total) is unchanged.
C7_ValidationFailureChangesNothing ==
    [][\A r \in Reqs :
          (/\ Begins(r, "createOrder")
           /\ MustFailValidation(carts[txn'[r].userId], products))
          => (/\ pc'[r] = "done"
              /\ resp'[r].code \in {400, 404}
              /\ resp'[r].error \in {"EmptyCart", "ProductGone", "InsufficientStock"}
              /\ DbUnchanged)
      ]_vars

\* a checkout failed on the second of two lines (its product is gone, the
\* first line's product is fine) and the cart is still there, whole
C7_Witness ==
    \E r \in Reqs :
        /\ pc[r] = "done"
        /\ txn[r].kind = "createOrder"
        /\ resp[r].error = "ProductGone"
        /\ Len(txn[r].cart.items) = 2
        /\ products[txn[r].cart.items[1].productId].exists
        /\ ~products[txn[r].cart.items[2].productId].exists
        /\ carts[txn[r].userId] = txn[r].cart
        /\ orders = <<>>

\* ----------------------------------------------------------------- C8
\* C8: createOrder is all-or-nothing.  The step that inserts an order also
\* deletes its owner's cart and takes the order's units off every product in
\* it; a cart disappears, or a product's quantity drops, only in the step
\* that inserts the order holding it; and a createOrder that ends in 500
\* after the order was created leaves orders, products and carts as they
\* were.
C8_CreateOrderAllOrNothing ==
    [][/\ OrderInserted
          => LET o == orders'[Len(orders')] IN
             /\ carts[o.userId].exists
             /\ ~carts'[o.userId].exists
             /\ \A p \in Products :
                   (products[p].exists /\ QtyOf(o.items, p) > 0)
                   => products'[p].quantity < products[p].quantity
       /\ \A u \in Users :
             (carts[u].exists /\ ~carts'[u].exists)
             => (OrderInserted /\ orders'[Len(orders')].userId = u)
       /\ \A p \in Products :
             (products'[p].exists /\ products'[p].quantity < products[p].quantity)
             => (OrderInserted /\ QtyOf(orders'[Len(orders')].items, p) > 0)
       /\ \A r \in Reqs :
             (/\ txn[r].kind = "createOrder"
              /\ pc[r] # "done"
              /\ pc'[r] = "done"
              /\ resp'[r].code = 500)
             => DbUnchanged
      ]_vars

\* a checkout of two lines was thrown out after it had already saved the
\* decrement of p1: p1 still has its unit, the cart is whole, no order exists
C8_Witness ==
    \E r \in Reqs :
        /\ pc[r] = "done"
        /\ txn[r].kind = "createOrder"
        /\ resp[r].code = 500
        /\ Len(txn[r].cart.items) = 2
        /\ "p1" \in txn[r].wroteP
        /\ products["p1"].quantity = 1
        /\ carts[txn[r].userId] = txn[r].cart
        /\ orders = <<>>

\* ----------------------------------------------------------------- C9
\* C9: the step that commits a createOrder takes from every product exactly
\* the units the order's lines hold of it, sets inStock to false exactly
\* when the quantity has reached zero and leaves it as it was otherwise, and
\* leaves the products that are not in the order unchanged.
C9_ReserveExactly ==
    [][OrderInserted
          => LET o == orders'[Len(orders')] IN
             \A p \in Products :
                 /\ QtyOf(o.items, p) > 0 => products[p].exists
                 /\ products[p].exists
                    => /\ products'[p].quantity
                             = products[p].quantity - QtyOf(o.items, p)
                       /\ products'[p].inStock
                             = IF QtyOf(o.items, p) > 0 /\ products'[p].quantity = 0
                               THEN FALSE ELSE products[p].inStock
                       /\ QtyOf(o.items, p) = 0 => products'[p] = products[p]
      ]_vars

\* a checkout took the last unit of p1 (now 0, out of stock) and one unit of
\* p2, which stays in stock
C9_Witness ==
    \E r \in Reqs :
        /\ pc[r] = "done"
        /\ txn[r].kind = "createOrder"
        /\ resp[r].code = 201
        /\ QtyOf(txn[r].cart.items, "p1") = 1
        /\ QtyOf(txn[r].cart.items, "p2") = 1
        /\ products["p1"].quantity = 0 /\ ~products["p1"].inStock
        /\ products["p2"].quantity = 1 /\ products["p2"].inStock

\* ---------------------------------------------------------------- C10
\* C10: orders are inserted one at a time, by the commit of a createOrder;
\* the new order belongs to the caller, is PENDING, its items are a
\* line-by-line copy (productId, name, price, quantity, subtotal) of the
\* caller's cart as it is at that moment, its total is the cart's total,
\* and the orders already there are untouched.  Only such a commit leads
\* to the 201 response.
C10_OrderIsCartSnapshot ==
    [][/\ Len(orders') # Len(orders)
          => \E r \in Reqs :
                LET o == orders'[Len(orders')]
                    cart == carts[txn[r].userId]
                IN
                /\ txn[r].kind = "createOrder"
                /\ pc[r] = "co_commit"
                /\ OrderInserted
                /\ \A id \in 1..Len(orders) : orders'[id] = orders[id]
                /\ o.userId = txn[r].userId
                /\ o.status = PENDING
                /\ cart.exists
                /\ Len(o.items) = Len(cart.items)
                /\ \A i \in 1..Len(cart.items) :
                      /\ o.items[i].productId = cart.items[i].productId
                      /\ o.items[i].productName = cart.items[i].productName
                      /\ o.items[i].price = cart.items[i].price
                      /\ o.items[i].quantity = cart.items[i].quantity
                      /\ o.items[i].subtotal = cart.items[i].subtotal
                /\ o.total = cart.total
       /\ \A r \in Reqs :
             (pc[r] # "done" /\ pc'[r] = "done" /\ resp'[r].code = 201)
             => (txn[r].kind = "createOrder" /\ txn[r].orderId \in 1..Len(orders)
                 /\ orders[txn[r].orderId].userId = txn[r].userId)
      ]_vars

\* a checkout of a two-line cart was answered 201 and its order holds both
\* lines and the cart's total
C10_Witness ==
    \E r \in Reqs :
        /\ pc[r] = "done"
        /\ txn[r].kind = "createOrder"
        /\ resp[r].code = 201
        /\ Len(txn[r].cart.items) = 2
        /\ orders[txn[r].orderId].items = orderItems(txn[r].cart)
        /\ orders[txn[r].orderId].total = txn[r].cart.total
        /\ orders[txn[r].orderId].status = PENDING
        /\ ~carts[txn[r].userId].exists

\* ---------------------------------------------------------------- C11
\* the cart has no line to check out
NothingToCheckOut(cart) == ~cart.exists \/ cart.items = <<>>

\* C11: the commit of a createOrder leaves its caller without a cart; a
\* createOrder that finds no cart (or an empty one) fails with EmptyCart and
\* changes no order, product or cart; and a cart with nothing to check out
\* gets lines only through addToCart.  So a second checkout with no addItem
\* in between creates no second order and takes no stock.
C11_SecondCheckoutFindsNoCart ==
    [][/\ \A r \in Reqs :
             (pc[r] = "co_commit" /\ pc'[r] = "co_email")
             => ~carts'[txn[r].userId].exists
       /\ \A r \in Reqs :
             (/\ Begins(r, "createOrder")
              /\ NothingToCheckOut(carts[txn'[r].userId]))
             => (/\ pc'[r] = "done"
                 /\ resp'[r].code = 400
                 /\ resp'[r].error = "EmptyCart"
                 /\ DbUnchanged)
       /\ \A u \in Users :
             (NothingToCheckOut(carts[u]) /\ ~NothingToCheckOut(carts'[u]))
             => \E r \in Reqs : Begins(r, "addToCart") /\ txn'[r].userId = u
      ]_vars

\* the caller's first checkout took the last unit of p1; the second one,
\* with nothing added in between, was refused: still one order, p1 still 0
C11_Witness ==
    \E r \in Reqs :
        /\ pc[r] = "done"
        /\ txn[r].kind = "createOrder"
        /\ resp[r].error = "EmptyCart"
        /\ ~carts[txn[r].userId].exists
        /\ Len(orders) = 1
        /\ orders[1].userId = txn[r].userId
        /\ QtyOf(orders[1].items, "p1") = 1
        /\ products["p1"].quantity = 0

\* ---------------------------------------------------------------- C12
\* what a committed cancellation of order o does to the stock: every product
\* that exists gets back exactly the units o holds of it and, if it holds
\* any, is in stock again; nothing else about the products changes
StockReleased(o) ==
    \A p \in Products :
        IF products[p].exists
        THEN /\ products'[p].exists
             /\ products'[p].quantity = products[p].quantity + QtyOf(o.items, p)
             /\ QtyOf(o.items, p) > 0 => products'[p].inStock
             /\ QtyOf(o.items, p) = 0 => products'[p] = products[p]
        ELSE products'[p] = products[p]

\* C12: the step that completes a successful customer cancelOrder turns the
\* order from PENDING to CANCELLED and gives every existing product of its
\* items exactly the item's quantity back, with inStock true whatever it was.
C12_CancelReleasesStock ==
    [][\A r \in Reqs :
          (pc[r] = "ca_commit" /\ pc'[r] = "done" /\ resp'[r].code = 200)
          => (/\ txn[r].orderId \in 1..Len(orders)
              /\ orders[txn[r].orderId].status = PENDING
              /\ orders'[txn[r].orderId].status = CANCELLED
              /\ orders[txn[r].orderId].userId = txn[r].userId
              /\ StockReleased(orders[txn[r].orderId]))
      ]_vars

\* a customer cancelled the order that had taken the last unit of p1 (which
\* stood at 0, out of stock): p1 has its unit again and is in stock
C12_Witness ==
    \E r \in Reqs :
        /\ pc[r] = "done"
        /\ txn[r].kind = "cancelMyOrder"
        /\ resp[r].code = 200
        /\ orders[txn[r].orderId].status = CANCELLED
        /\ QtyOf(orders[txn[r].orderId].items, "p1") = 1
        /\ products["p1"].quantity = 1
        /\ products["p1"].inStock

\* ---------------------------------------------------------------- C13
NonTerminal == {PENDING, CONFIRMED, SHIPPED}

\* C13: updateOrderStatus(id, CANCELLED) on a PENDING, CONFIRMED or SHIPPED
\* order is never refused, and the step that commits it sets the status to
\* CANCELLED and releases the stock exactly as a customer's cancel does.
C13_AdminCancelReleasesStock ==
    [][/\ \A r \in Reqs :
             (/\ Begins(r, "updateOrderStatus")
              /\ txn'[r].status = CANCELLED
              /\ txn'[r].orderId \in 1..Len(orders)
              /\ orders[txn'[r].orderId].status \in NonTerminal)
             => pc'[r] = "up_release"
       /\ \A r \in Reqs :
             (pc[r] = "up_commit" /\ pc'[r] = "up_email" /\ txn[r].status = CANCELLED)
             => (/\ orders[txn[r].orderId].status \in NonTerminal
                 /\ orders'[txn[r].orderId].status = CANCELLED
                 /\ StockReleased(orders[txn[r].orderId]))
      ]_vars

\* an admin cancelled an order that was not yet final and held the last
\* unit of p1: p1 has its unit again and is in stock
C13_Witness ==
    \E r \in Reqs :
        /\ pc[r] = "done"
        /\ txn[r].kind = "updateOrderStatus"
        /\ txn[r].status = CANCELLED
        /\ resp[r].code = 200
        /\ orders[txn[r].orderId].status = CANCELLED
        /\ QtyOf(orders[txn[r].orderId].items, "p1") = 1
        /\ products["p1"].quantity = 1
        /\ products["p1"].inStock

\* ---------------------------------------------------------------- C14
\* the sum of the subtotals of the first n lines
RECURSIVE SubtotalSum(_, _)
SubtotalSum(items, n) ==
    IF n = 0 THEN 0 ELSE items[n].subtotal + SubtotalSum(items, n - 1)

TotalIsSum(cart) == cart.total = SubtotalSum(cart.items, Len(cart.items))

CartKinds == {"addToCart", "updateCartItem", "removeFromCart", "clearCart"}

\* request r has just been answered with success by a handler of kind k
Succeeds(r, k) ==
    /\ pc[r] = "idle"
    /\ pc'[r] = "done"
    /\ txn'[r].kind = k
    /\ resp'[r].code = 200

\* C14: after every successful addItem, updateItem, removeItem or clear, the
\* caller's cart exists and its total is the sum of its items' subtotals.
C14_TotalIsSumOfSubtotals ==
    [][\A r \in Reqs, k \in CartKinds :
          Succeeds(r, k)
          => (/\ carts'[txn'[r].userId].exists
              /\ TotalIsSum(carts'[txn'[r].userId]))
      ]_vars

\* the quantity of the second of two lines was just set to 2 and the total
\* is the sum of both subtotals
C14_Witness ==
    \E r \in Reqs :
        /\ pc[r] = "done"
        /\ txn[r].kind = "updateCartItem"
        /\ resp[r].code = 200
        /\ Len(carts[txn[r].userId].items) = 2
        /\ carts[txn[r].userId].items[2].quantity = 2
        /\ carts[txn[r].userId].total
              = carts[txn[r].userId].items[1].subtotal
                + carts[txn[r].userId].items[2].subtotal
        /\ carts[txn[r].userId].total > 0

\* ---------------------------------------------------------------- C15
\* C15: when deleteProduct(P) completes, no cart holds a line of P, and
\* every cart that held one has a total equal to the sum of the subtotals
\* of the lines it has left.
C15_DeleteProductPrunesCarts ==
    [][\A r \in Reqs :
          (pc[r] = "dp_delete" /\ pc'[r] = "done" /\ resp'[r].code = 200)
          => (/\ \A u \in Users :
                    carts'[u].exists => QtyOf(carts'[u].items, txn[r].productId) = 0
              /\ \A u \in txn[r].affected :
                    carts'[u].exists => TotalIsSum(carts'[u]))
      ]_vars

\* ---------------------------------------------------------------- C16
\* C16: once an order exists, no step changes its items, its total or its
\* owner, and no step removes it; only its status may change.
C16_OrderBodyImmutable ==
    [][\A id \in 1..Len(orders) :
          /\ id <= Len(orders')
          /\ orders'[id].items = orders[id].items
          /\ orders'[id].total = orders[id].total
          /\ orders'[id].userId = orders[id].userId
      ]_vars

\* an order bought p1 at price 1 under its first name; p1 has since been
\* re-priced and renamed and the order cancelled: the order's line and total
\* still show the purchase
C16_Witness ==
    \E id \in 1..Len(orders) :
        /\ orders[id].status = CANCELLED
        /\ Len(orders[id].items) = 1
        /\ orders[id].items[1].productId = "p1"
        /\ orders[id].items[1].price = ProductPrice("p1")
        /\ orders[id].items[1].productName = ProductName("p1")
        /\ orders[id].total = ProductPrice("p1")
        /\ products["p1"].exists
        /\ products["p1"].price # ProductPrice("p1")
        /\ products["p1"].name # ProductName("p1")

\* ---------------------------------------------------------------- C17
\* where a handler stands once its transaction is committed and the
\* notification is being sent, or has settled
AfterCommit == {"co_email", "co_respond", "up_email", "up_respond"}

\* C17: once the transaction of createOrder or updateOrderStatus is
\* committed, whatever becomes of the notification the handler's remaining
\* steps change no order, product or cart, and the only answer it gives is
\* the success one (201 for createOrder, 200 for updateOrderStatus).
C17_EmailFailureNeverFailsTheOrder ==
    [][\A r \in Reqs :
          (pc[r] \in AfterCommit /\ pc'[r] # pc[r])
          => (/\ DbUnchanged
              /\ pc'[r] \in AfterCommit \cup {"done"}
              /\ pc'[r] = "done"
                 => (/\ resp'[r].error = ""
                     /\ resp'[r].code
                           = IF txn[r].kind = "createOrder" THEN 201 ELSE 200))
      ]_vars

\* the confirmation email of a checkout could not be sent: the failure was
\* logged, the caller got 201, the order is there and the cart is gone
C17_Witness ==
    \E r \in Reqs :
        /\ pc[r] = "done"
        /\ txn[r].kind = "createOrder"
        /\ txn[r].email = "failed"
        /\ resp[r].code = 201
        /\ resp[r].logged = "EmailError"
        /\ orders[txn[r].orderId].userId = txn[r].userId
        /\ ~carts[txn[r].userId].exists
        /\ products["p1"].quantity = 0

\* ---------------------------------------------------------------- C18
\* the notification of r has been handed to the mail service and has not
\* settled yet
DispatchPending(r) == pc[r] \in {"co_email", "up_email"}

\* C18: the response does not wait for the notification: while the send is
\* still under way the handler can already answer the caller.
C18_ResponseDoesNotAwaitDispatch ==
    \A r \in Reqs :
        DispatchPending(r)
        => ENABLED (createOrder_respond(r) \/ updateOrderStatus_respond(r))

\* ---------------------------------------------------------------- C19
\* the units of p the cart already holds
InCart(cart, p) == IF cart.exists THEN QtyOf(cart.items, p) ELSE 0

CartQuantities == 0..MaxQty

C20_UpdateItemChecksCurrentStock ==
    [][\A r \in Reqs, u \in Users, itemId \in ItemIds, q \in CartQuantities :
          updateCartItem(r, u, itemId, q)
          => /\ products' = products /\ orders' = orders
             /\ \A v \in Users \ {u} : carts'[v] = carts[v]
             /\ IF ~carts[u].exists \/ itemId \notin 1..Len(carts[u].items)
                THEN /\ resp'[r].code = 404
                     /\ resp'[r].error \in {"CartNotFound", "ItemNotFound"}
                     /\ carts' = carts
                ELSE LET line == carts[u].items[itemId]
                         product == products[line.productId]
                     IN
                     IF ~product.exists
                     THEN /\ resp'[r].code = 404
                          /\ resp'[r].error = "ProductGone"
                          /\ carts' = carts
                     ELSE IF ~product.inStock \/ product.quantity < q
                     THEN /\ resp'[r].code = 400
                          /\ resp'[r].error = "InsufficientStock"
                          /\ carts' = carts
                     ELSE IF q < 1
                     THEN resp'[r].code # 200 /\ carts' = carts
                     ELSE /\ resp'[r].code = 200
                          /\ Len(carts'[u].items) = Len(carts[u].items)
                          /\ carts'[u].items[itemId].quantity = q
                          /\ carts'[u].items[itemId].productId = line.productId
                          /\ \A j \in 1..Len(carts[u].items) :
                                j # itemId => carts'[u].items[j] = carts[u].items[j]
      ]_vars

\* the line holds as many units as the request asks for, and the request is
\* refused all the same: the product has fewer units now than when the line
\* was filled
C20_Witness ==
    \E r \in Reqs :
        /\ pc[r] = "done"
        /\ txn[r].kind = "updateCartItem"
        /\ resp[r].error = "InsufficientStock"
        /\ Len(carts[txn[r].userId].items) = 1
        /\ carts[txn[r].userId].items[1].quantity = MaxQty
        /\ products[carts[txn[r].userId].items[1].productId].inStock
        /\ products[carts[txn[r].userId].items[1].productId].quantity < MaxQty

\* ---------------------------------------------------------------- C21
\* C21: removeItem(itemId), for every itemId, and clear() succeed whenever
\* the caller has a cart, and the cart they leave has a total equal to the
\* sum of the subtotals of the lines that remain.
C21_RemoveAndClearAlwaysSucceed ==
    [][\A r \in Reqs, u \in Users, itemId \in ItemIds :
          (carts[u].exists /\ (removeFromCart(r, u, itemId) \/ clearCart(r, u)))
          => (/\ resp'[r].code = 200
              /\ carts'[u].exists
              /\ TotalIsSum(carts'[u]))
      ]_vars

\* ---------------------------------------------------------------- C22
\* C22: in every reachable state the Cart collection holds at most one
\* document per user, also when a getCart and an addItem of one user both
\* found no cart and both go on to create one.
C22_OneCartPerUser == \A u \in Users : CartCount(u) <= 1

\* a getCart and an addItem of the same user both found no cart; the
\* getCart created it and was answered, the addItem's create was refused
C22_Witness ==
    \E r1, r2 \in Reqs :
        /\ txn[r1].kind = "getCart" /\ txn[r2].kind = "addToCart"
        /\ txn[r1].userId = txn[r2].userId
        /\ pc[r1] = "done" /\ ~txn[r1].cart.exists /\ resp[r1].code = 200
        /\ pc[r2] = "done" /\ resp[r2].logged = "DuplicateKey"
        /\ CartCount(txn[r1].userId) = 1

\* ---------------------------------------------------------------- C23
\* C23: cancelOrder on an order that exists and belongs to another user is
\* refused with Forbidden, which is neither Unauthenticated nor NotFound,
\* and leaves the orders and the products as they were.
C23_CancelByNonOwnerIsForbidden ==
    [][\A r \in Reqs, u \in Users, id \in 1..Len(orders) :
          (orders[id].userId # u /\ cancelMyOrder_begin(r, u, id))
          => (/\ resp'[r].code = 403
              /\ resp'[r].error = "Forbidden"
              /\ orders' = orders
              /\ products' = products)
      ]_vars

\* ---------------------------------------------------------------- C24
\* no two lines of the cart name the same product
OneLinePerProduct(cart) ==
    \A i, j \in 1..Len(cart.items) :
        i # j => cart.items[i].productId # cart.items[j].productId

C25_SubtotalIsPriceTimesQuantity ==
    \A u \in Users :
        \A i \in 1..Len(carts[u].items) :
            carts[u].items[i].subtotal
                = carts[u].items[i].price * carts[u].items[i].quantity

\* ---------------------------------------------------------------- C26
\* C26: the products start with inStock = (quantity > 0), and in every
\* state reached through createOrder, cancelOrder and updateOrderStatus
\* (no product is created or updated) every product still has
\* inStock = (quantity > 0).
C26_InStockIffQuantityPositive ==
    \A p \in Products :
        products[p].exists => (products[p].inStock <=> products[p].quantity > 0)

\* an order that has been confirmed took the last unit of p1, which is out
\* of stock, and one of the two units of p2, which is in stock
C26_Witness ==
    \E id \in 1..Len(orders) :
        /\ orders[id].status = CONFIRMED
        /\ QtyOf(orders[id].items, "p1") = 1
        /\ QtyOf(orders[id].items, "p2") = 1
        /\ products["p1"].quantity = 0 /\ ~products["p1"].inStock
        /\ products["p2"].quantity = 1 /\ products["p2"].inStock

\* ---------------------------------------------------------------- C27
\* the units of p held by the first n orders that are not cancelled
RECURSIVE HeldUpTo(_, _, _)
HeldUpTo(os, p, n) ==
    IF n = 0 THEN 0
    ELSE (IF os[n].status # CANCELLED THEN QtyOf(os[n].items, p) ELSE 0)
         + HeldUpTo(os, p, n - 1)

\* the units of p on the shelf and in the orders that are not cancelled
StockOf(ps, os, p) == ps[p].quantity + HeldUpTo(os, p, Len(os))

\* C27: for a product that no product route changes, the quantity in stock
\* plus the quantities of its lines in the orders that are not CANCELLED is
\* the same after every step, so it is the initial quantity in every
\* reachable state (there is no order at the start): a status change other
\* than to CANCELLED moves no stock and a cancellation gives back exactly
\* what the order took.
C27_StockConservation ==
    [][\A p \in Products :
          (/\ products[p].exists /\ products'[p].exists
           /\ (products'[p] # products[p] \/ orders' # orders))
          => StockOf(products', orders', p) = StockOf(products, orders, p)
      ]_vars

\* an order holding both units of p2 has just been marked shipped: none is
\* on the shelf, two are held
C27_Witness ==
    \E r \in Reqs :
        /\ pc[r] = "done"
        /\ txn[r].kind = "updateOrderStatus"
        /\ txn[r].status = SHIPPED
        /\ resp[r].code = 200
        /\ orders[txn[r].orderId].status = SHIPPED
        /\ products["p2"].quantity = 0
        /\ HeldUpTo(orders, "p2", Len(orders)) = 2

\* ---------------------------------------------------------------- C28
\* C28: every order in the collection has a total equal to the sum of the
\* subtotals of its own items, whatever cart requests, re-pricings and
\* product deletions came before the checkout.
C28_OrderTotalIsSumOfItems ==
    \A id \in 1..Len(orders) :
        orders[id].total = SubtotalSum(orders[id].items, Len(orders[id].items))

\* ---------------------------------------------------------------- C29
FinalStatus == {DELIVERED, CANCELLED}

\* C29: whatever cancelling and status-changing requests overlap on an
\* order, (a) a product's quantity rises only by the commit of a request
\* that takes the order from a status that is not final to CANCELLED, and
\* then by exactly the units the order holds of it, and (b) once DELIVERED
\* or CANCELLED is committed the order's status never changes again.  By
\* (b) an order is taken to CANCELLED at most once, so by (a) its units are
\* given back at most once.
C29_ReleasedOnceAndFinalStays ==
    [][/\ \A p \in Products :
             products'[p].quantity > products[p].quantity
             => \E r \in Reqs :
                   /\ pc[r] \in {"ca_commit", "up_commit"}
                   /\ pc'[r] # pc[r]
                   /\ orders[txn[r].orderId].status \notin FinalStatus
                   /\ orders'[txn[r].orderId].status = CANCELLED
                   /\ products'[p].quantity
                         = products[p].quantity + QtyOf(orders[txn[r].orderId].items, p)
       /\ \A id \in 1..Len(orders) :
             orders[id].status \in FinalStatus
             => orders'[id].status = orders[id].status
      ]_vars

\* the owner's cancel and an admin's cancellation of the same order ran
\* side by side: the admin's went through, the owner's was thrown out with
\* a write conflict, and p1 has the one unit the order held, once
C29_Witness ==
    \E r1, r2 \in Reqs :
        /\ txn[r1].kind = "cancelMyOrder"
        /\ txn[r2].kind = "updateOrderStatus" /\ txn[r2].status = CANCELLED
        /\ txn[r1].orderId = txn[r2].orderId
        /\ pc[r1] = "done" /\ resp[r1].logged = "WriteConflict"
        /\ pc[r2] \in {"up_email", "up_respond", "done"}
        /\ txn[r1].order.status = PENDING /\ txn[r2].order.status = CANCELLED
        /\ orders[txn[r1].orderId].status = CANCELLED
        /\ QtyOf(orders[txn[r1].orderId].items, "p1") = 1
        /\ products["p1"].quantity = 1

\* ---------------------------------------------------------------- C30
\* request r commits its createOrder in this step
CommitsOrder(r) == pc[r] = "co_commit" /\ pc'[r] = "co_email"

\* C30: a createOrder commits only while the cart it read is still the
\* caller's cart, and its commit removes that cart, inserts one order and
\* takes from every product exactly the units of the cart's lines; a
\* product's quantity falls by no other step; and a createOrder that ends
\* without committing ends in a step that changes no product, cart or
\* order.  So of two createOrder requests that read the same cart at most
\* one commits, the stock is taken once, and the other leaves nothing.
C30_OneOrderPerCart ==
    [][/\ \A r \in Reqs :
             CommitsOrder(r)
             => (/\ carts[txn[r].userId].exists
                 /\ carts[txn[r].userId].items = txn[r].cart.items
                 /\ ~carts'[txn[r].userId].exists
                 /\ OrderInserted
                 /\ orders'[Len(orders')].userId = txn[r].userId
                 /\ \A p \in Products :
                       /\ QtyOf(txn[r].cart.items, p) > 0 => products[p].exists
                       /\ products'[p].quantity
                             = products[p].quantity - QtyOf(txn[r].cart.items, p))
       /\ \A p \in Products :
             (products'[p].exists /\ products'[p].quantity < products[p].quantity)
             => \E r \in Reqs : CommitsOrder(r)
       /\ OrderInserted => \E r \in Reqs : CommitsOrder(r)
       /\ \A r \in Reqs :
             (txn[r].kind = "createOrder" /\ InTxn(r) /\ pc'[r] = "done")
             => DbUnchanged
      ]_vars

\* two createOrder requests of one user read the same cart, the last unit
\* of p1: one committed, the other was thrown out; there is one order and
\* p1 was taken once
C30_Witness ==
    \E r1, r2 \in Reqs :
        /\ r1 # r2
        /\ txn[r1].kind = "createOrder" /\ txn[r2].kind = "createOrder"
        /\ txn[r1].userId = txn[r2].userId
        /\ txn[r1].cart.exists /\ txn[r1].cart = txn[r2].cart
        /\ QtyOf(txn[r1].cart.items, "p1") = 1
        /\ pc[r1] \in {"co_email", "co_respond", "done"} /\ txn[r1].orderId = 1
        /\ pc[r2] = "done" /\ resp[r2].code = 500
        /\ Len(orders) = 1
        /\ products["p1"].quantity = 0
        /\ ~carts[txn[r1].userId].exists
====
